---- MODULE Spec2Model ----
(***************************************************************************)
(* Invoice pricing and payment reconciliation engine of the tour-booking   *)
(* backend: PriceCalculator, EasyKash webhook verification, and the        *)
(* InvoiceService status state machine.                                    *)
(*                                                                         *)
(* Money is a Python float in the source.  Here an amount is an integer    *)
(* number of 1/10000 currency units, so that two successive percentage     *)
(* discounts of a whole-unit price are exact; floating-point rounding is   *)
(* not modelled.  Strings are TLA+ strings and "".join / f-strings are \o. *)
(***************************************************************************)
EXTENDS Integers, Sequences, FiniteSets, TLC

VARIABLES
    invoices,    \* the invoices table: a sequence of rows, row i has id i
    used_count,  \* coupons.used_count, per coupon code
    usage,       \* coupon_user_usage.usage_count, per <<code, user>>; 0 = no row
    last,        \* what the last request did and returned to its caller
    pending,     \* the input of a pure-function run, before it is applied
    sessions     \* in-flight requests, each with its own database session

vars == <<invoices, used_count, usage, last, pending, sessions>>

(***************************************************************************)
(* Bounds of the model.                                                    *)
(***************************************************************************)
MaxInvoices == 2
MaxAdults == 2
MaxChildren == 1

None == "None"
NoCoupon == ""
Unit == 100 * 100
Users == {1, 2}

(***************************************************************************)
(* Catalogue (read-only for the engine): trips, courses, coupons.  Prices   *)
(* are whole currency units.  A trip's or a course's discount_percentage   *)
(* is an integer column with no range (trip 3 and course 4 carry more than *)
(* 100); a coupon's is validated to 0 < p <= 100.                          *)
(***************************************************************************)
Trips ==
    [id \in {1, 2, 3, 4} |->
        CASE id = 1 -> [adult_price |-> 50 * Unit, child_price |-> 20 * Unit,
                        child_allowed |-> TRUE, maxim_person |-> 3,
                        has_discount |-> TRUE, discount_always_available |-> TRUE,
                        discount_requires_min_people |-> FALSE,
                        discount_min_people |-> 0, discount_percentage |-> 10]
          [] id = 2 -> [adult_price |-> 100 * Unit, child_price |-> 0,
                        child_allowed |-> FALSE, maxim_person |-> 2,
                        has_discount |-> TRUE, discount_always_available |-> FALSE,
                        discount_requires_min_people |-> TRUE,
                        discount_min_people |-> 2, discount_percentage |-> 50]
          [] id = 3 -> [adult_price |-> 100 * Unit, child_price |-> 50 * Unit,
                        child_allowed |-> TRUE, maxim_person |-> 3,
                        has_discount |-> TRUE, discount_always_available |-> TRUE,
                        discount_requires_min_people |-> FALSE,
                        discount_min_people |-> 0, discount_percentage |-> 150]
          [] id = 4 -> [adult_price |-> 30 * Unit, child_price |-> 10 * Unit,
                        child_allowed |-> TRUE, maxim_person |-> 2,
                        has_discount |-> FALSE, discount_always_available |-> FALSE,
                        discount_requires_min_people |-> FALSE,
                        discount_min_people |-> 0, discount_percentage |-> 0]]

Courses ==
    [id \in {1, 2, 3, 4} |->
        CASE id = 1 -> [price |-> 100 * Unit, price_available |-> TRUE,
                        has_discount |-> TRUE, discount_always_available |-> TRUE,
                        discount_requires_min_people |-> FALSE,
                        discount_min_people |-> 0, discount_percentage |-> 10]
          [] id = 2 -> [price |-> 200 * Unit, price_available |-> FALSE,
                        has_discount |-> FALSE, discount_always_available |-> FALSE,
                        discount_requires_min_people |-> FALSE,
                        discount_min_people |-> 0, discount_percentage |-> 0]
          [] id = 3 -> [price |-> 80 * Unit, price_available |-> TRUE,
                        has_discount |-> TRUE, discount_always_available |-> FALSE,
                        discount_requires_min_people |-> TRUE,
                        discount_min_people |-> 4, discount_percentage |-> 25]
          [] id = 4 -> [price |-> 60 * Unit, price_available |-> TRUE,
                        has_discount |-> TRUE, discount_always_available |-> TRUE,
                        discount_requires_min_people |-> FALSE,
                        discount_min_people |-> 0, discount_percentage |-> 120]]

\* expired stands for: expire_date is set and datetime.utcnow() > expire_date
Coupons ==
    [code \in {"SAVE10", "ALL50", "FREE", "OLD", "OFF"} |->
        CASE code = "SAVE10" -> [activity |-> "trip", discount_percentage |-> 10,
                                 can_used_up_to |-> 2, user_limit |-> 1,
                                 is_active |-> TRUE, expired |-> FALSE]
          [] code = "ALL50"  -> [activity |-> "all", discount_percentage |-> 50,
                                 can_used_up_to |-> 3, user_limit |-> 0,
                                 is_active |-> TRUE, expired |-> FALSE]
          [] code = "FREE"   -> [activity |-> "course", discount_percentage |-> 100,
                                 can_used_up_to |-> 1, user_limit |-> 1,
                                 is_active |-> TRUE, expired |-> FALSE]
          [] code = "OLD"    -> [activity |-> "all", discount_percentage |-> 20,
                                 can_used_up_to |-> 2, user_limit |-> 1,
                                 is_active |-> TRUE, expired |-> TRUE]
          [] code = "OFF"    -> [activity |-> "all", discount_percentage |-> 20,
                                 can_used_up_to |-> 2, user_limit |-> 1,
                                 is_active |-> FALSE, expired |-> FALSE]]

CouponCodes == DOMAIN Coupons

(***************************************************************************)
(* PriceCalculator                                                         *)
(***************************************************************************)

\* a raised HTTPException: no price is returned
PriceError(e) ==
    [err |-> e, final_price |-> 0, total_discount |-> 0, base_price |-> 0,
     group_applied |-> FALSE, group_percentage |-> 0, group_amount |-> 0,
     promo_applied |-> FALSE, promo_percentage |-> 0, promo_amount |-> 0,
     info_final_price |-> 0, coupon_obj |-> NoCoupon]

\* (x * percentage) / 100
Percent(x, percentage) == (x * percentage) \div 100

\* _validate_coupon with the cap compared by > instead of >=
_validate_coupon_strict(code, activity_type, uc) ==
    IF ~Coupons[code].is_active THEN "400:coupon_inactive"
    ELSE IF Coupons[code].can_used_up_to > 0 /\ uc[code] > Coupons[code].can_used_up_to
    THEN "400:coupon_used_up"
    ELSE IF Coupons[code].expired THEN "400:coupon_expired"
    ELSE IF Coupons[code].activity # "all" /\ Coupons[code].activity # activity_type
    THEN "400:coupon_scope"
    ELSE ""

\* the checks of _validate_coupon in order; "" when none raises
_validate_coupon(code, activity_type, uc) ==
    IF ~Coupons[code].is_active THEN "400:coupon_inactive"
    ELSE IF Coupons[code].can_used_up_to > 0 /\ uc[code] >= Coupons[code].can_used_up_to
    THEN "400:coupon_used_up"
    ELSE IF Coupons[code].expired THEN "400:coupon_expired"
    ELSE IF Coupons[code].activity # "all" /\ Coupons[code].activity # activity_type
    THEN "400:coupon_scope"
    ELSE ""

\* the coupon lookup of a calculator and its validation; "" when none raises
coupon_lookup(coupon_code, activity_type, uc) ==
    IF coupon_code = NoCoupon THEN ""
    ELSE IF coupon_code \notin CouponCodes THEN "404:coupon"
    ELSE _validate_coupon(coupon_code, activity_type, uc)

\* the percentage of the group discount that applies to a trip booking; 0 = none
trip_group_percentage(trip, total_participants) ==
    IF /\ trip.has_discount
       /\ \/ trip.discount_always_available
          \/ /\ trip.discount_requires_min_people
             /\ trip.discount_min_people # 0
             /\ total_participants >= trip.discount_min_people
    THEN trip.discount_percentage
    ELSE 0

\* trip_discounts with the coupon's percentage taken of the base price
trip_discounts_additive(base_price, group_percentage, coupon_code, promo_percentage) ==
    LET group_discount_amount == Percent(base_price, group_percentage)
        promo_discount_amount == Percent(base_price, promo_percentage)
        total_discount == group_discount_amount + promo_discount_amount
        final_price == base_price - total_discount
    IN
    [err |-> "",
     final_price |-> IF final_price < 0 THEN 0 ELSE final_price,
     total_discount |-> total_discount, base_price |-> base_price,
     group_applied |-> group_percentage # 0,
     group_percentage |-> group_percentage,
     group_amount |-> group_discount_amount,
     promo_applied |-> coupon_code # NoCoupon,
     promo_percentage |-> promo_percentage,
     promo_amount |-> promo_discount_amount,
     info_final_price |-> IF final_price < 0 THEN 0 ELSE final_price,
     coupon_obj |-> coupon_code]

\* trip_discounts without the floor at zero
trip_discounts_unclamped(base_price, group_percentage, coupon_code, promo_percentage) ==
    LET group_discount_amount == Percent(base_price, group_percentage)
        price_after_group_discount == base_price - group_discount_amount
        promo_discount_amount == Percent(price_after_group_discount, promo_percentage)
        total_discount == group_discount_amount + promo_discount_amount
        final_price == base_price - total_discount
    IN
    [err |-> "",
     final_price |-> final_price,
     total_discount |-> total_discount, base_price |-> base_price,
     group_applied |-> group_percentage # 0,
     group_percentage |-> group_percentage,
     group_amount |-> group_discount_amount,
     promo_applied |-> coupon_code # NoCoupon,
     promo_percentage |-> promo_percentage,
     promo_amount |-> promo_discount_amount,
     info_final_price |-> final_price,
     coupon_obj |-> coupon_code]

\* steps 5 and 6 of calculate_trip_price, for a validated coupon (or none)
trip_discounts(base_price, group_percentage, coupon_code, promo_percentage) ==
    LET group_discount_amount == Percent(base_price, group_percentage)
        price_after_group_discount == base_price - group_discount_amount
        promo_discount_amount == Percent(price_after_group_discount, promo_percentage)
        total_discount == group_discount_amount + promo_discount_amount
        final_price == base_price - total_discount
    IN
    [err |-> "",
     final_price |-> IF final_price < 0 THEN 0 ELSE final_price,
     total_discount |-> total_discount, base_price |-> base_price,
     group_applied |-> group_percentage # 0,
     group_percentage |-> group_percentage,
     group_amount |-> group_discount_amount,
     promo_applied |-> coupon_code # NoCoupon,
     promo_percentage |-> promo_percentage,
     promo_amount |-> promo_discount_amount,
     info_final_price |-> IF final_price < 0 THEN 0 ELSE final_price,
     coupon_obj |-> coupon_code]

\* steps 3 to 6 of calculate_trip_price, after the participant validation
trip_price(trip, adults, children, coupon_code, coupon_error) ==
    IF coupon_error # "" THEN PriceError(coupon_error)
    ELSE trip_discounts((adults * trip.adult_price) + (children * trip.child_price),
                        trip_group_percentage(trip, adults + children),
                        coupon_code,
                        IF coupon_code = NoCoupon THEN 0
                        ELSE Coupons[coupon_code].discount_percentage)

calculate_trip_price(trip_id, adults, children, coupon_code, uc) ==
    IF trip_id \notin DOMAIN Trips THEN PriceError("404:trip")
    ELSE IF adults < 1 THEN PriceError("400:adults")
    ELSE IF ~Trips[trip_id].child_allowed /\ children > 0 THEN PriceError("400:children")
    ELSE IF adults + children > Trips[trip_id].maxim_person
    THEN PriceError("400:max_person")
    ELSE trip_price(Trips[trip_id], adults, children, coupon_code,
                    coupon_lookup(coupon_code, "trip", uc))

\* the percentage of the group discount that applies to a course; 0 = none
course_group_percentage(course) ==
    IF /\ course.has_discount
       /\ \/ course.discount_always_available
          \/ /\ course.discount_requires_min_people
             /\ course.discount_min_people # 0
    THEN course.discount_percentage
    ELSE 0

\* steps 4 and 5 of calculate_course_price, for a validated coupon (or none)
course_discounts(base_price, group_percentage, coupon_code, promo_percentage) ==
    LET group_discount_amount == Percent(base_price, group_percentage)
        price_after_group_discount == base_price - group_discount_amount
        promo_discount_amount == Percent(price_after_group_discount, promo_percentage)
        total_discount == group_discount_amount + promo_discount_amount
        final_price == base_price - total_discount
    IN
    [err |-> "",
     final_price |-> IF final_price < 0 THEN 0 ELSE final_price,
     total_discount |-> total_discount, base_price |-> base_price,
     group_applied |-> group_percentage # 0,
     group_percentage |-> group_percentage,
     group_amount |-> group_discount_amount,
     promo_applied |-> coupon_code # NoCoupon,
     promo_percentage |-> promo_percentage,
     promo_amount |-> promo_discount_amount,
     info_final_price |-> IF final_price < 0 THEN 0 ELSE final_price,
     coupon_obj |-> coupon_code]

\* steps 2 to 5 of calculate_course_price, for a course with a price
course_price(course, coupon_code, coupon_error) ==
    IF coupon_error # "" THEN PriceError(coupon_error)
    ELSE course_discounts(course.price, course_group_percentage(course), coupon_code,
                          IF coupon_code = NoCoupon THEN 0
                          ELSE Coupons[coupon_code].discount_percentage)

calculate_course_price(course_id, coupon_code, uc) ==
    IF course_id \notin DOMAIN Courses THEN PriceError("404:course")
    ELSE IF ~Courses[course_id].price_available THEN PriceError("400:price_unavailable")
    ELSE course_price(Courses[course_id], coupon_code,
                      coupon_lookup(coupon_code, "course", uc))

Abs(x) == IF x < 0 THEN -x ELSE x

\* verify_amount_matches_calculation with a strict comparison
verify_amount_strictly_within(calculated_amount, submitted_amount, tolerance) ==
    Abs(calculated_amount - submitted_amount) < tolerance

verify_amount_matches_calculation(calculated_amount, submitted_amount, tolerance) ==
    Abs(calculated_amount - submitted_amount) <= tolerance

(***************************************************************************)
(* Strings: str.lower / str.upper on the words the model uses, and the     *)
(* decimal text of a user id.                                              *)
(***************************************************************************)
Lower(s) ==
    CASE s \in {"trip", "Trip", "TRIP"} -> "trip"
      [] s \in {"course", "Course"} -> "course"
      [] OTHER -> s

Upper(s) ==
    CASE s \in {"PAID", "paid", "Paid"} -> "PAID"
      [] s \in {"FAILED", "failed"} -> "FAILED"
      [] s \in {"CANCELLED", "cancelled"} -> "CANCELLED"
      [] s \in {"EXPIRED", "expired"} -> "EXPIRED"
      [] s \in {"PENDING", "pending"} -> "PENDING"
      [] s \in {"NEW", "new"} -> "NEW"
      [] s \in {"REFUNDED", "refunded"} -> "REFUNDED"
      [] OTHER -> s

UserIdStr(u) == CASE u = 1 -> "1" [] u = 2 -> "2" [] OTHER -> "0"

(***************************************************************************)
(* EasyKash client: reference generation and session creation.  The two    *)
(* random.randint draws are inputs (r1, r2); the HTTP outcome is the       *)
(* environment's choice gw: "fail" (non-200), "ok" (200, no reference in   *)
(* the body) or "ok_ref" (200 with the gateway's own reference).           *)
(***************************************************************************)
RandOnline == {"10", "11"}
RandCash == {"1", "2"}

generate_customer_reference(user_id, r1, r2) == r1 \o UserIdStr(user_id) \o r2

create_payment(user_id, r1, r2, gw) ==
    LET customer_ref == generate_customer_reference(user_id, r1, r2) IN
    IF gw = "fail"
    THEN [success |-> FALSE, customer_reference |-> None, easykash_reference |-> None]
    ELSE [success |-> TRUE, customer_reference |-> customer_ref,
          easykash_reference |-> IF gw = "ok_ref" THEN "ek" \o customer_ref ELSE None]

(***************************************************************************)
(* InvoiceService.create_invoice                                           *)
(***************************************************************************)
Tolerance == 1 * Unit

\* the invoices table without its unique indexes
UniqueViolation_unindexed(invs, customer_reference, easykash_reference) == FALSE

\* a unique index admits any number of NULLs and no two equal values
UniqueViolation(invs, customer_reference, easykash_reference) ==
    \E i \in 1..Len(invs) :
        \/ customer_reference # None /\ invs[i].customer_reference = customer_reference
        \/ easykash_reference # None /\ invs[i].easykash_reference = easykash_reference

\* the price step of create_invoice (steps 1 and 2): the validation that
\* precedes the calculator, then the calculator of the activity
create_invoice_price(req, uc) ==
    IF req.invoice_type \notin {"online", "cash"} THEN PriceError("400:invoice_type")
    ELSE
    LET activity == Lower(req.activity) IN
    IF activity = "trip"
    THEN IF req.trip_id = 0 THEN PriceError("400:trip_id")
         ELSE IF req.adults < 1 THEN PriceError("400:adults")
         ELSE calculate_trip_price(req.trip_id, req.adults, req.children,
                                   req.coupon_code, uc)
    ELSE IF activity = "course"
    THEN IF req.course_id = 0 THEN PriceError("400:course_id")
         ELSE calculate_course_price(req.course_id, req.coupon_code, uc)
    ELSE PriceError("400:activity")

\* the row create_invoice builds (step 5) from the calculator's result
new_invoice(req, calc, customer_reference, easykash_reference) ==
    [user_id |-> req.user_id, activity |-> req.activity,
     amount |-> calc.final_price, invoice_type |-> req.invoice_type,
     status |-> "PENDING", customer_reference |-> customer_reference,
     easykash_reference |-> easykash_reference, payment_method |-> "easykash",
     coupon_code |-> req.coupon_code, discount_amount |-> calc.total_discount,
     breakdown_base_price |-> calc.base_price,
     breakdown_final_price |-> calc.info_final_price]

\* create_invoice_row without the check of the gateway's success flag
create_invoice_row_unchecked(req, invs, calc, pay) ==
    LET customer_reference ==
            IF req.invoice_type = "online" THEN pay.customer_reference
            ELSE req.r1 \o UserIdStr(req.user_id) \o req.r2
        easykash_reference ==
            IF req.invoice_type = "online" THEN pay.easykash_reference ELSE None
    IN
    IF calc.err # ""
    THEN [result |-> calc.err, inserted |-> FALSE, gateway_called |-> FALSE,
          row |-> None, calc |-> calc]
    ELSE IF ~verify_amount_matches_calculation(calc.final_price, req.amount, Tolerance)
    THEN [result |-> "400:amount_mismatch", inserted |-> FALSE,
          gateway_called |-> FALSE, row |-> None, calc |-> calc]
    ELSE IF UniqueViolation(invs, customer_reference, easykash_reference)
    THEN [result |-> "500:integrity", inserted |-> FALSE,
          gateway_called |-> req.invoice_type = "online", row |-> None,
          calc |-> calc]
    ELSE [result |-> "created", inserted |-> TRUE,
          gateway_called |-> req.invoice_type = "online",
          row |-> new_invoice(req, calc, customer_reference, easykash_reference),
          calc |-> calc]

\* create_invoice_row with the payment session created before the amount
\* is verified
create_invoice_row_gateway_first(req, invs, calc, pay) ==
    LET customer_reference ==
            IF req.invoice_type = "online" THEN pay.customer_reference
            ELSE req.r1 \o UserIdStr(req.user_id) \o req.r2
        easykash_reference ==
            IF req.invoice_type = "online" THEN pay.easykash_reference ELSE None
    IN
    IF calc.err # ""
    THEN [result |-> calc.err, inserted |-> FALSE, gateway_called |-> FALSE,
          row |-> None, calc |-> calc]
    ELSE IF req.invoice_type = "online" /\ ~pay.success
    THEN [result |-> "400:payment_link", inserted |-> FALSE,
          gateway_called |-> TRUE, row |-> None, calc |-> calc]
    ELSE IF ~verify_amount_matches_calculation(calc.final_price, req.amount, Tolerance)
    THEN [result |-> "400:amount_mismatch", inserted |-> FALSE,
          gateway_called |-> req.invoice_type = "online", row |-> None,
          calc |-> calc]
    ELSE IF UniqueViolation(invs, customer_reference, easykash_reference)
    THEN [result |-> "500:integrity", inserted |-> FALSE,
          gateway_called |-> req.invoice_type = "online", row |-> None,
          calc |-> calc]
    ELSE [result |-> "created", inserted |-> TRUE,
          gateway_called |-> req.invoice_type = "online",
          row |-> new_invoice(req, calc, customer_reference, easykash_reference),
          calc |-> calc]

\* steps 3 to 5 of create_invoice for a computed price and a gateway answer:
\* the result returned (or the error raised) and the row inserted, if any
create_invoice_row(req, invs, calc, pay) ==
    LET customer_reference ==
            IF req.invoice_type = "online" THEN pay.customer_reference
            ELSE req.r1 \o UserIdStr(req.user_id) \o req.r2
        easykash_reference ==
            IF req.invoice_type = "online" THEN pay.easykash_reference ELSE None
    IN
    IF calc.err # ""
    THEN [result |-> calc.err, inserted |-> FALSE, gateway_called |-> FALSE,
          row |-> None, calc |-> calc]
    ELSE IF ~verify_amount_matches_calculation(calc.final_price, req.amount, Tolerance)
    THEN [result |-> "400:amount_mismatch", inserted |-> FALSE,
          gateway_called |-> FALSE, row |-> None, calc |-> calc]
    ELSE IF req.invoice_type = "online" /\ ~pay.success
    THEN [result |-> "400:payment_link", inserted |-> FALSE,
          gateway_called |-> TRUE, row |-> None, calc |-> calc]
    ELSE IF UniqueViolation(invs, customer_reference, easykash_reference)
    THEN [result |-> "500:integrity", inserted |-> FALSE,
          gateway_called |-> req.invoice_type = "online", row |-> None,
          calc |-> calc]
    ELSE [result |-> "created", inserted |-> TRUE,
          gateway_called |-> req.invoice_type = "online",
          row |-> new_invoice(req, calc, customer_reference, easykash_reference),
          calc |-> calc]

create_invoice(req, invs, uc) ==
    create_invoice_row(req, invs, create_invoice_price(req, uc),
                       create_payment(req.user_id, req.r1, req.r2, req.gw))

\* CouponServices.consume_coupon: the per-user row is inserted with count 1
\* or incremented, and used_count is incremented, in one commit
\* consume_usage that writes a count of 1 on every use
consume_usage_insert_only(us, code, user_id) ==
    [us EXCEPT ![<<code, user_id>>] = 1]

consume_usage(us, code, user_id) ==
    [us EXCEPT ![<<code, user_id>>] = IF @ # 0 THEN @ + 1 ELSE 1]

consume_used_count(uc, code) == [uc EXCEPT ![code] = @ + 1]

\* what the send to one configured admin can do: answer 200, answer another
\* status code, or raise; "no_admins" is an empty TELEGRAM_ADMIN_IDS
SendOutcomes == {"no_admins", "sent", "refused", "raised"}

\* notify_admins without the try/except around the send
notify_admins_uncaught(send) ==
    [error |-> send = "no_admins",
     successful |-> IF send = "sent" THEN 1 ELSE 0,
     raised |-> send = "raised"]

\* notify_admins: the dict it returns; an exception of the send is caught
\* and recorded in the results, so nothing is raised
notify_admins(send) ==
    [error |-> send = "no_admins",
     successful |-> IF send = "sent" THEN 1 ELSE 0,
     raised |-> FALSE]

\* what create_invoice returns after step 7: the created invoice, unless the
\* notification raised
create_invoice_returns(out, notification) ==
    IF out.inserted /\ notification.raised THEN "500:notify_admins" ELSE out.result

\* what create_invoice leaves in the database: the row, then the coupon
\* consumed when the calculator returned one; then the notification
create_invoice_commit(req, out, consumed, send) ==
    /\ invoices' = IF out.inserted THEN Append(invoices, out.row) ELSE invoices
    /\ used_count' = IF consumed THEN consume_used_count(used_count, req.coupon_code)
                     ELSE used_count
    /\ usage' = IF consumed THEN consume_usage(usage, req.coupon_code, req.user_id)
                ELSE usage
    /\ last' = [op |-> "create_invoice",
                result |-> create_invoice_returns(out, notify_admins(send)),
                activity |-> Lower(req.activity), submitted |-> req.amount,
                calc |-> out.calc, gateway_called |-> out.gateway_called,
                consumed |-> consumed, notified |-> out.inserted,
                send |-> IF out.inserted THEN send ELSE None,
                id |-> IF out.inserted THEN Len(invoices) + 1 ELSE 0]

\* create_invoice_consumes with the coupon consumed before the row is committed
create_invoice_consumes_early(req, out) ==
    out.calc.coupon_obj # NoCoupon /\ req.coupon_code # NoCoupon

create_invoice_consumes(req, out) ==
    out.inserted /\ out.calc.coupon_obj # NoCoupon /\ req.coupon_code # NoCoupon

\* the whole handler on the database, for one request
DoCreate(req) ==
    /\ Len(invoices) < MaxInvoices
    /\ \E send \in SendOutcomes :
        create_invoice_commit(req, create_invoice(req, invoices, used_count),
            create_invoice_consumes(req, create_invoice(req, invoices, used_count)),
            send)


(***************************************************************************)
(* CouponServices.apply_coupon: the check a user runs on a code.           *)
(***************************************************************************)
\* Coupon.remaining
remaining(code, uc) ==
    IF Coupons[code].can_used_up_to - uc[code] < 0 THEN 0
    ELSE Coupons[code].can_used_up_to - uc[code]

\* Coupon.can_used
can_used(code, uc) ==
    IF ~Coupons[code].is_active THEN FALSE
    ELSE IF remaining(code, uc) <= 0 THEN FALSE
    ELSE IF Coupons[code].expired THEN FALSE
    ELSE TRUE

\* apply_coupon as it was before usage moved to invoice creation: a
\* successful check counts as a use
apply_coupon_consuming(coupon_code, user_id, uc, us) ==
    IF coupon_code \notin CouponCodes
    THEN [result |-> "404:coupon", used_count |-> uc, usage |-> us]
    ELSE IF ~can_used(coupon_code, uc)
    THEN [result |-> "not_usable", used_count |-> uc, usage |-> us]
    ELSE IF user_id \notin Users
    THEN [result |-> "404:user", used_count |-> uc, usage |-> us]
    ELSE IF /\ us[<<coupon_code, user_id>>] # 0
            /\ Coupons[coupon_code].user_limit > 0
            /\ us[<<coupon_code, user_id>>] >= Coupons[coupon_code].user_limit
    THEN [result |-> "user_limit_reached", used_count |-> uc, usage |-> us]
    ELSE [result |-> "success",
          used_count |-> [uc EXCEPT ![coupon_code] = @ + 1],
          usage |-> [us EXCEPT ![<<coupon_code, user_id>>] = @ + 1]]

\* apply_coupon: the response (or the error raised) and the coupon counters
\* it leaves in the database
apply_coupon(coupon_code, user_id, uc, us) ==
    IF coupon_code \notin CouponCodes
    THEN [result |-> "404:coupon", used_count |-> uc, usage |-> us]
    ELSE IF ~can_used(coupon_code, uc) /\ ~Coupons[coupon_code].is_active
    THEN [result |-> "not_active", used_count |-> uc, usage |-> us]
    ELSE IF ~can_used(coupon_code, uc) /\ remaining(coupon_code, uc) <= 0
    THEN [result |-> "limit_reached", used_count |-> uc, usage |-> us]
    ELSE IF ~can_used(coupon_code, uc) /\ Coupons[coupon_code].expired
    THEN [result |-> "expired", used_count |-> uc, usage |-> us]
    ELSE IF user_id \notin Users
    THEN [result |-> "404:user", used_count |-> uc, usage |-> us]
    ELSE IF /\ us[<<coupon_code, user_id>>] # 0
            /\ Coupons[coupon_code].user_limit > 0
            /\ us[<<coupon_code, user_id>>] >= Coupons[coupon_code].user_limit
    THEN [result |-> "user_limit_reached", used_count |-> uc, usage |-> us]
    ELSE [result |-> "success", used_count |-> uc, usage |-> us]

(***************************************************************************)
(* EasyKash webhook verification.  A payload is a dict: a function from    *)
(* the keys it carries to strings.  HMAC-SHA512 is an ideal keyed hash:    *)
(* its hex digest is a string that determines the key and the message.     *)
(***************************************************************************)
SignedFields ==
    <<"ProductCode", "Amount", "ProductType", "PaymentMethod", "status",
      "easykashRef", "customerReference">>

\* dict.get(key, default)
Get(payload, key, default) == IF key \in DOMAIN payload THEN payload[key] ELSE default

HmacSha512Hex(key, msg) == "hmac[" \o key \o "](" \o msg \o ")"

\* verify_callback with Amount concatenated before ProductCode
verify_callback_reordered(secret, payload) ==
    IF secret \in {None, ""} THEN FALSE
    ELSE IF Get(payload, "signatureHash", None) \in {None, ""} THEN FALSE
    ELSE HmacSha512Hex(secret,
            Get(payload, "Amount", "") \o Get(payload, "ProductCode", "")
                \o Get(payload, "ProductType", "") \o Get(payload, "PaymentMethod", "")
                \o Get(payload, "status", "") \o Get(payload, "easykashRef", "")
                \o Get(payload, "customerReference", ""))
            = Get(payload, "signatureHash", None)

\* EasyKash.verify_callback with self.secret_key = secret
verify_callback(secret, payload) ==
    IF secret \in {None, ""} THEN FALSE
    ELSE
    LET received_signature == Get(payload, "signatureHash", None) IN
    IF received_signature \in {None, ""} THEN FALSE
    ELSE
    LET concatenated_string ==
            Get(payload, "ProductCode", "") \o Get(payload, "Amount", "")
                \o Get(payload, "ProductType", "") \o Get(payload, "PaymentMethod", "")
                \o Get(payload, "status", "") \o Get(payload, "easykashRef", "")
                \o Get(payload, "customerReference", "")
        calculated_signature == HmacSha512Hex(secret, concatenated_string)
    IN calculated_signature = received_signature

\* EasyKash.verify_callback_official with self.secret_key = secret
verify_callback_official(secret, payload) ==
    IF secret \in {None, ""} THEN FALSE
    ELSE
    LET received_signature == Get(payload, "signatureHash", None) IN
    IF received_signature \in {None, ""} THEN FALSE
    ELSE IF \E i \in 1..Len(SignedFields) : SignedFields[i] \notin DOMAIN payload
    THEN FALSE
    ELSE
    LET concatenated_string ==
            payload["ProductCode"] \o payload["Amount"] \o payload["ProductType"]
                \o payload["PaymentMethod"] \o payload["status"]
                \o payload["easykashRef"] \o payload["customerReference"]
        calculated_signature == HmacSha512Hex(secret, concatenated_string)
    IN calculated_signature = received_signature

(***************************************************************************)
(* InvoiceService.process_payment_callback                                 *)
(***************************************************************************)
VALID_CALLBACK_STATUSES == {"PAID", "FAILED", "CANCELLED", "EXPIRED"}

\* db.query(Invoice).filter(Invoice.customer_reference == ref).first(); 0 = no row
FindByReference(invs, ref) ==
    IF \E i \in 1..Len(invs) : invs[i].customer_reference = ref
    THEN CHOOSE i \in 1..Len(invs) :
            /\ invs[i].customer_reference = ref
            /\ \A j \in 1..Len(invs) : invs[j].customer_reference = ref => i <= j
    ELSE 0

\* a flush of the row new_row over old_row: no UPDATE when nothing changed
\* (updated_at is rewritten exactly when an UPDATE is issued: committed),
\* IntegrityError when the new easykash_reference is another row's
Flush(invs, id, new_row) ==
    LET changed == new_row # invs[id]
        clash == /\ new_row.easykash_reference # invs[id].easykash_reference
                 /\ new_row.easykash_reference # None
                 /\ \E j \in 1..Len(invs) :
                        j # id /\ invs[j].easykash_reference = new_row.easykash_reference
    IN
    IF ~changed THEN [invs |-> invs, committed |-> FALSE, error |-> FALSE]
    ELSE IF clash THEN [invs |-> invs, committed |-> FALSE, error |-> TRUE]
    ELSE [invs |-> [invs EXCEPT ![id] = new_row],
          committed |-> TRUE, error |-> FALSE]

\* payload.get("status", "").upper()
callback_status(payload) == Upper(Get(payload, "status", ""))

\* a return or a raise of process_payment_callback that changes nothing
callback_unchanged(invs, id, r) ==
    [invs |-> invs, result |-> r, committed |-> FALSE, notified |-> FALSE, id |-> id]

\* the three assignments of process_payment_callback
callback_row(invoice, payload, incoming_status) ==
    [invoice EXCEPT !.status = incoming_status,
                    !.easykash_reference = Get(payload, "easykashRef", None),
                    !.payment_method = Get(payload, "paymentMethod", None)]

\* the commit of process_payment_callback and what follows it: the success
\* dict is returned inside the PAID branch only (None = fell off the end)
callback_commit(invs, id, incoming_status, fl) ==
    IF fl.error THEN callback_unchanged(invs, id, "500:integrity")
    ELSE [invs |-> fl.invs,
          result |-> IF incoming_status = "PAID" THEN "success:updated" ELSE None,
          committed |-> fl.committed, notified |-> FALSE, id |-> id]

\* callback_for without the guard on an invoice that is already PAID
callback_for_unguarded(invs, payload, id, incoming_status) ==
    IF id = 0 THEN callback_unchanged(invs, id, "404:not_found")
    ELSE IF incoming_status \notin VALID_CALLBACK_STATUSES
    THEN callback_unchanged(invs, id, "noop:unhandled_status")
    ELSE callback_commit(invs, id, incoming_status,
            Flush(invs, id, callback_row(invs[id], payload, incoming_status)))

\* callback_for without the check of the incoming status
callback_for_any_status(invs, payload, id, incoming_status) ==
    IF id = 0 THEN callback_unchanged(invs, id, "404:not_found")
    ELSE IF invs[id].status = "PAID"
    THEN callback_unchanged(invs, id, "success:already_paid")
    ELSE callback_commit(invs, id, incoming_status,
            Flush(invs, id, callback_row(invs[id], payload, incoming_status)))

\* process_payment_callback for the row found (id; 0 = none)
callback_for(invs, payload, id, incoming_status) ==
    IF id = 0 THEN callback_unchanged(invs, id, "404:not_found")
    ELSE IF invs[id].status = "PAID"
    THEN callback_unchanged(invs, id, "success:already_paid")
    ELSE IF incoming_status \notin VALID_CALLBACK_STATUSES
    THEN callback_unchanged(invs, id, "noop:unhandled_status")
    ELSE callback_commit(invs, id, incoming_status,
            Flush(invs, id, callback_row(invs[id], payload, incoming_status)))

process_payment_callback(invs, payload) ==
    callback_for(invs, payload,
                 FindByReference(invs, Get(payload, "customerReference", None)),
                 callback_status(payload))

\* the configured shared secret of the deployment (EASYKASH_SECRET_KEY)
SecretKey == "k1"

\* the endpoint without the signature check
easykash_callback_unverified(invs, payload) == process_payment_callback(invs, payload)

\* POST /invoices/webhook/easykash-callback: 403 unless the signature
\* verifies, else the callback is processed
easykash_callback(invs, payload) ==
    IF ~verify_callback(SecretKey, payload)
    THEN callback_unchanged(invs, 0, "403:forbidden")
    ELSE process_payment_callback(invs, payload)


(***************************************************************************)
(* On-demand reconciliation.  The gateway's answer to inquire_payment is   *)
(* the environment's choice resp: error (non-200), or a JSON body with an  *)
(* optional status and an optional easykashReference (None = absent).      *)
(***************************************************************************)
FINAL_STATUSES == {"PAID", "EXPIRED", "CANCELLED"}

\* skips_inquiry that never calls the gateway
skips_inquiry_always(invoice) == TRUE

\* whether _inquire_and_update_invoice returns before calling the gateway
skips_inquiry(invoice) ==
    invoice.status \in FINAL_STATUSES \/ invoice.customer_reference \in {None, ""}

\* easykash_status_str.upper() if easykash_status_str else None ("" = None)
inquiry_status(resp) == IF resp.status \in {None, ""} THEN "" ELSE Upper(resp.status)

\* the row after step 3 of _inquire_and_update_invoice, for a JSON answer
inquiry_row(invoice, easykash_status, easykash_ref) ==
    [invoice EXCEPT
        !.status = IF easykash_status # "" /\ easykash_status # invoice.status
                   THEN easykash_status ELSE @,
        !.easykash_reference =
                   IF easykash_ref \notin {None, ""} /\ easykash_ref # @
                   THEN easykash_ref ELSE @]

\* step 4 of _inquire_and_update_invoice
inquiry_commit(invs, fl) ==
    IF fl.error
    THEN [invs |-> invs, result |-> "500:integrity", inquired |-> TRUE,
          committed |-> FALSE, inquiry_failed |-> FALSE]
    ELSE [invs |-> fl.invs, result |-> "ok", inquired |-> TRUE,
          committed |-> fl.committed, inquiry_failed |-> FALSE]

\* inquire_payment raises what requests.post raises (no connection, a
\* timeout of the socket): nothing on the way to the route catches it.  Its
\* answer with a status code other than 200 is a dict with "error".
_inquire_and_update_invoice(invs, id, resp) ==
    IF skips_inquiry(invs[id])
    THEN [invs |-> invs, result |-> "ok", inquired |-> FALSE, committed |-> FALSE,
          inquiry_failed |-> FALSE]
    ELSE IF resp.raised
    THEN [invs |-> invs, result |-> "500:transport_error", inquired |-> TRUE,
          committed |-> FALSE, inquiry_failed |-> TRUE]
    ELSE IF resp.error
    THEN [invs |-> invs, result |-> "ok", inquired |-> TRUE, committed |-> FALSE,
          inquiry_failed |-> TRUE]
    ELSE inquiry_commit(invs,
            Flush(invs, id, inquiry_row(invs[id], inquiry_status(resp), resp.ref)))

\* func.count(Invoice.id) over the rows of the users in scope whose status
\* is one of statuses
count_invoices(invs, users, statuses) ==
    Cardinality({i \in 1..Len(invs) :
                    invs[i].user_id \in users /\ invs[i].status \in statuses})

\* the counts of the two summaries (the sums of amount are not modelled)
summary_response(paid_count, pending_count, failed_count) ==
    [total_invoices |-> paid_count + pending_count + failed_count,
     paid_count |-> paid_count, pending_count |-> pending_count,
     failed_count |-> failed_count]

invoices_summary(invs, users) ==
    summary_response(count_invoices(invs, users, {"PAID"}),
                     count_invoices(invs, users, {"PENDING"}),
                     count_invoices(invs, users, {"FAILED", "CANCELLED", "EXPIRED"}))

get_invoices_summary_for_admin(invs) == invoices_summary(invs, Users)

get_summary_for_user(invs, user_id) == invoices_summary(invs, {user_id})

\* the 404 of a reading handler whose lookup finds no row
NotFound(invs) ==
    [invs |-> invs, result |-> "404:not_found", inquired |-> FALSE,
     committed |-> FALSE, inquiry_failed |-> FALSE]

\* the lookups of the five reading handlers; 0 = no row
get_invoice_lookup(invs, invoice_id, user_id) ==
    IF invoice_id \in 1..Len(invs) /\ invs[invoice_id].user_id = user_id
    THEN invoice_id ELSE 0

get_invoice_admin_lookup(invs, invoice_id) ==
    IF invoice_id \in 1..Len(invs) THEN invoice_id ELSE 0

\* order_by(created_at.desc()).first(): rows are appended in creation order
get_last_invoice_lookup(invs, user_id) ==
    IF \E i \in 1..Len(invs) : invs[i].user_id = user_id
    THEN CHOOSE i \in 1..Len(invs) :
            /\ invs[i].user_id = user_id
            /\ \A j \in 1..Len(invs) : invs[j].user_id = user_id => j <= i
    ELSE 0

get_invoice_by_reference_for_user_lookup(invs, customer_reference, user_id) ==
    IF \E i \in 1..Len(invs) :
            invs[i].customer_reference = customer_reference /\ invs[i].user_id = user_id
    THEN CHOOSE i \in 1..Len(invs) :
            /\ invs[i].customer_reference = customer_reference
            /\ invs[i].user_id = user_id
            /\ \A j \in 1..Len(invs) :
                    (invs[j].customer_reference = customer_reference
                        /\ invs[j].user_id = user_id) => i <= j
    ELSE 0

\* the commit of update_payment_status_public
manual_commit(id, fl) ==
    [invs |-> fl.invs, result |-> "ok", committed |-> fl.committed, id |-> id]

\* update_payment_status_public for the row found (id; 0 = none)
manual_for(invs, id, payment_status) ==
    IF id = 0
    THEN [invs |-> invs, result |-> "404:not_found", committed |-> FALSE, id |-> 0]
    ELSE manual_commit(id, Flush(invs, id, [invs[id] EXCEPT !.status = payment_status]))

\* InvoiceService.update_payment_status_public
update_payment_status_public(invs, customer_reference, payment_status) ==
    manual_for(invs, FindByReference(invs, customer_reference), payment_status)


(***************************************************************************)
(* Inputs of the requests.                                                 *)
(***************************************************************************)
Without(payload, keys) == [k \in DOMAIN payload \ keys |-> payload[k]]

With(payload, key, value) ==
    [k \in DOMAIN payload \cup {key} |-> IF k = key THEN value ELSE payload[k]]

\* the string the gateway signs: the seven values in order, no separator
SignedString(payload) ==
    payload["ProductCode"] \o payload["Amount"] \o payload["ProductType"]
        \o payload["PaymentMethod"] \o payload["status"] \o payload["easykashRef"]
        \o payload["customerReference"]

\* a callback as the gateway sends it (create_test_callback)
GatewayCallback(key, customer_reference, status) ==
    LET payload == [ProductCode |-> "P1", Amount |-> "100", ProductType |-> "T",
                    PaymentMethod |-> "Card", status |-> status,
                    easykashRef |-> "ek" \o customer_reference,
                    customerReference |-> customer_reference]
    IN With(payload, "signatureHash", HmacSha512Hex(key, SignedString(payload)))

CallbackStatuses == {"PAID", "paid", "FAILED", "CANCELLED", "EXPIRED", "NEW"}

KnownReferences == {invoices[i].customer_reference : i \in 1..Len(invoices)}

\* a callback signed by the gateway whose body has no status key
unsigned_status(ref) ==
    With(Without(GatewayCallback(SecretKey, ref, ""), {"status"}), "signatureHash",
         HmacSha512Hex(SecretKey, SignedString(GatewayCallback(SecretKey, ref, ""))))

\* what reaches the webhook endpoint: the gateway's callbacks, the same with
\* the status key dropped, and callbacks signed without the secret
LifecyclePayloads ==
    {GatewayCallback(SecretKey, ref, st) :
        ref \in KnownReferences \cup {"0000"}, st \in CallbackStatuses}
    \cup {unsigned_status(ref) : ref \in KnownReferences}
    \cup {With(GatewayCallback(SecretKey, ref, "PAID"), "signatureHash", "bad") :
            ref \in KnownReferences}
    \cup {GatewayCallback("k2", ref, "PAID") : ref \in KnownReferences}
    \cup {Without(GatewayCallback(SecretKey, ref, "PAID"), {"signatureHash"}) :
            ref \in KnownReferences}

InquiryResponses(customer_reference) ==
    {[error |-> TRUE, status |-> None, ref |-> None, raised |-> FALSE],
     [error |-> FALSE, status |-> None, ref |-> None, raised |-> TRUE]}
        \cup {[error |-> FALSE, status |-> st, ref |-> r, raised |-> FALSE] :
                st \in {None, "paid", "FAILED", "NEW"},
                r \in {None, "ek" \o customer_reference}}

ManualStatuses == {"PAID", "PENDING", "CANCELLED", "EXPIRED", "FAILED"}

\* bookings of trip 1 by one adult, user 1 paying online and user 2 in cash:
\* 45 is the price, 41 is not
LifecycleRequests ==
    {[user_id |-> k.user_id, invoice_type |-> k.invoice_type, activity |-> "trip",
      trip_id |-> 1, course_id |-> 0, adults |-> 1, children |-> 0,
      coupon_code |-> NoCoupon, amount |-> a, gw |-> g, r1 |-> k.r, r2 |-> k.r] :
        k \in {[user_id |-> 1, invoice_type |-> "online", r |-> "10"],
               [user_id |-> 2, invoice_type |-> "cash", r |-> "1"]},
        a \in {45 * Unit, 41 * Unit}, g \in {"ok", "fail"}}

(***************************************************************************)
(* The service, one request at a time.                                     *)
(***************************************************************************)
\* no drawn input is waiting
NoInput == [kind |-> "none"]

Init ==
    /\ invoices = <<>>
    /\ used_count = [c \in CouponCodes |-> 0]
    /\ usage = [cu \in CouponCodes \X Users |-> 0]
    /\ last = [op |-> "init"]
    /\ pending = NoInput
    /\ sessions = <<>>

CreateInvoice ==
    /\ \E req \in LifecycleRequests : DoCreate(req)
    /\ UNCHANGED <<pending, sessions>>

\* the row a request is about, as it was before the request
StatusOf(invs, id) == IF id = 0 THEN None ELSE invs[id].status

callback_request(payload, out, id) ==
    /\ invoices' = out.invs
    /\ last' = [op |-> "webhook", result |-> out.result,
                verified |-> verify_callback(SecretKey, payload),
                committed |-> out.committed, notified |-> out.notified,
                status |-> Get(payload, "status", None),
                id |-> id, pre_status |-> StatusOf(invoices, id)]

EasykashCallback ==
    /\ \E payload \in LifecyclePayloads :
        callback_request(payload, easykash_callback(invoices, payload),
            FindByReference(invoices, Get(payload, "customerReference", None)))
    /\ UNCHANGED <<used_count, usage, pending, sessions>>

read_request(op, id, out) ==
    /\ invoices' = out.invs
    /\ last' = [op |-> op, result |-> out.result, inquired |-> out.inquired,
                inquiry_failed |-> out.inquiry_failed,
                committed |-> out.committed, id |-> id,
                pre_status |-> StatusOf(invoices, id)]

\* a reading handler: its lookup, then _inquire_and_update_invoice
Read(op, id) ==
    /\ IF id = 0 THEN read_request(op, id, NotFound(invoices))
       ELSE \E resp \in InquiryResponses(invoices[id].customer_reference) :
                read_request(op, id, _inquire_and_update_invoice(invoices, id, resp))
    /\ UNCHANGED <<used_count, usage, pending, sessions>>

GetInvoice ==
    \E invoice_id \in 1..MaxInvoices, user_id \in Users :
        Read("get_invoice", get_invoice_lookup(invoices, invoice_id, user_id))

GetInvoiceAdmin ==
    \E invoice_id \in 1..MaxInvoices :
        Read("get_invoice_admin", get_invoice_admin_lookup(invoices, invoice_id))

GetLastInvoiceForUser ==
    \E user_id \in Users :
        Read("get_last_invoice_for_user", get_last_invoice_lookup(invoices, user_id))

GetInvoiceByReferenceForUser ==
    \E ref \in KnownReferences, user_id \in Users :
        Read("get_invoice_by_reference_for_user",
             get_invoice_by_reference_for_user_lookup(invoices, ref, user_id))

GetInvoiceByReferencePublic ==
    \E ref \in KnownReferences \cup {"0000"} :
        Read("get_invoice_by_reference_public", FindByReference(invoices, ref))

manual_request(out) ==
    /\ invoices' = out.invs
    /\ last' = [op |-> "update_payment_status_public", result |-> out.result,
                committed |-> out.committed, id |-> out.id,
                pre_status |-> StatusOf(invoices, out.id)]

UpdatePaymentStatusPublic ==
    /\ \E ref \in KnownReferences \cup {"0000"}, payment_status \in ManualStatuses :
        manual_request(update_payment_status_public(invoices, ref, payment_status))
    /\ UNCHANGED <<used_count, usage, pending, sessions>>

GetInvoicesSummaryForAdmin ==
    /\ last' = [op |-> "get_invoices_summary_for_admin", scope |-> Users,
                summary |-> get_invoices_summary_for_admin(invoices)]
    /\ UNCHANGED <<invoices, used_count, usage, pending, sessions>>

GetSummaryForUser ==
    /\ \E user_id \in Users :
        last' = [op |-> "get_summary_for_user", scope |-> {user_id},
                 summary |-> get_summary_for_user(invoices, user_id)]
    /\ UNCHANGED <<invoices, used_count, usage, pending, sessions>>

Next ==
    \/ GetInvoicesSummaryForAdmin
    \/ GetSummaryForUser
    \/ CreateInvoice
    \/ EasykashCallback
    \/ GetInvoice
    \/ GetInvoiceAdmin
    \/ GetLastInvoiceForUser
    \/ GetInvoiceByReferenceForUser
    \/ GetInvoiceByReferencePublic
    \/ UpdatePaymentStatusPublic

Spec == Init /\ [][Next]_vars

(***************************************************************************)
(* The price calculator and create_invoice on drawn inputs: Init draws one *)
(* input, the action applies the function to it on an empty database with  *)
(* unused coupons.                                                         *)
(***************************************************************************)
PriceCoupons == {NoCoupon, "SAVE10", "ALL50", "FREE", "OLD", "OFF", "NOPE"}

TripPriceInputs ==
    {[kind |-> "trip_price", trip_id |-> t, adults |-> a, children |-> c,
      coupon_code |-> k] :
        t \in 1..5, a \in 0..MaxAdults, c \in 0..MaxChildren, k \in PriceCoupons}

CoursePriceInputs ==
    {[kind |-> "course_price", course_id |-> t, coupon_code |-> k] :
        t \in 1..5, k \in PriceCoupons}

\* the amounts a client submits, by their distance to the server's price:
\* 0.2, 1.0 and 1.01 on either side
AmountOffsets == {0, 2000, -2000, Unit, -Unit, Unit + 100, -(Unit + 100)}

WithAmount(req, d) ==
    [req EXCEPT !.amount =
        create_invoice_price(req, [c \in CouponCodes |-> 0]).final_price + d]

\* InvoiceCreate.amount is at least 0.01: the least amount a client can
\* submit for a price of 0
Payable(req) == [req EXCEPT !.amount = IF @ < 100 THEN 100 ELSE @]

\* the requests of create_invoice, with every submitted amount
CreateRequests ==
    {[kind |-> "create", req |-> WithAmount(r, d)] :
        r \in {[user_id |-> 1, invoice_type |-> ty.invoice_type, activity |-> "Trip",
                trip_id |-> t, course_id |-> 0, adults |-> a, children |-> c,
                coupon_code |-> k, amount |-> 0, gw |-> ty.gw,
                r1 |-> "10", r2 |-> "10"] :
                    ty \in {[invoice_type |-> "online", gw |-> "ok"],
                            [invoice_type |-> "online", gw |-> "fail"],
                            [invoice_type |-> "cash", gw |-> "ok"],
                            [invoice_type |-> "card", gw |-> "ok"]},
                    t \in 0..4, a \in 0..MaxAdults, c \in 0..MaxChildren,
                    k \in {NoCoupon, "SAVE10", "ALL50", "OLD", "OFF", "FREE", "NOPE"}}
              \cup
              {[user_id |-> 1, invoice_type |-> ty, activity |-> act,
                trip_id |-> 0, course_id |-> t, adults |-> 1, children |-> 0,
                coupon_code |-> k, amount |-> 0, gw |-> "ok_ref",
                r1 |-> "10", r2 |-> "10"] :
                    ty \in {"online", "cash"}, act \in {"course", "dive"},
                    t \in 0..4, k \in {NoCoupon, "ALL50", "FREE"}},
        d \in AmountOffsets}

\* InvoiceCreate.amount is at least 0.01
CreateInputs == {x \in CreateRequests : x.req.amount >= 100}

InitPrice ==
    /\ invoices = <<>>
    /\ used_count = [c \in CouponCodes |-> 0]
    /\ usage = [cu \in CouponCodes \X Users |-> 0]
    /\ last = [op |-> "init"]
    /\ pending \in TripPriceInputs \cup CoursePriceInputs \cup CreateInputs
    /\ sessions = <<>>

CalculateTripPrice ==
    /\ pending.kind = "trip_price"
    /\ last' = [op |-> "calculate_trip_price", trip_id |-> pending.trip_id,
                adults |-> pending.adults, children |-> pending.children,
                coupon_code |-> pending.coupon_code,
                calc |-> calculate_trip_price(pending.trip_id, pending.adults,
                            pending.children, pending.coupon_code, used_count)]
    /\ pending' = NoInput
    /\ UNCHANGED <<invoices, used_count, usage, sessions>>

CalculateCoursePrice ==
    /\ pending.kind = "course_price"
    /\ last' = [op |-> "calculate_course_price", course_id |-> pending.course_id,
                coupon_code |-> pending.coupon_code,
                calc |-> calculate_course_price(pending.course_id,
                            pending.coupon_code, used_count)]
    /\ pending' = NoInput
    /\ UNCHANGED <<invoices, used_count, usage, sessions>>

CreateInvoicePriced ==
    /\ pending.kind = "create"
    /\ DoCreate(pending.req)
    /\ pending' = NoInput
    /\ UNCHANGED sessions

NextPrice ==
    \/ CalculateTripPrice
    \/ CalculateCoursePrice
    \/ CreateInvoicePriced

SpecPrice == InitPrice /\ [][NextPrice]_vars

(***************************************************************************)
(* The webhook verifiers on drawn inputs: Init draws a configured secret   *)
(* and a payload, the action applies the verifier.                         *)
(***************************************************************************)
\* the string a signer holding the key builds from a body that lacks some
\* of the seven fields: the values that are there, in order
SignedStringOfPresent(payload) ==
    Get(payload, "ProductCode", "") \o Get(payload, "Amount", "")
        \o Get(payload, "ProductType", "") \o Get(payload, "PaymentMethod", "")
        \o Get(payload, "status", "") \o Get(payload, "easykashRef", "")
        \o Get(payload, "customerReference", "")

SignedFieldSet == {SignedFields[i] : i \in 1..Len(SignedFields)}

\* the callbacks the gateway has signed and sent
GenuineCallbacks == {GatewayCallback(SecretKey, "101", st) : st \in {"PAID", "FAILED"}}

VerifyPayloads ==
    LET genuine == GenuineCallbacks
    IN
    genuine
    \* a signed body with the first character of customerReference moved to
    \* the end of easykashRef, the signature kept
    \cup {[p EXCEPT !.easykashRef = "ek101" \o "1", !.customerReference = "01"] :
            p \in genuine}
    \cup {With(p, "signatureHash", s) : p \in genuine, s \in {"bad", ""}}
    \* the genuine signature with its last character changed
    \cup {With(p, "signatureHash", "hmac[" \o SecretKey \o "](" \o SignedString(p) \o "]") :
            p \in genuine}
    \cup {Without(p, {"signatureHash"}) : p \in genuine}
    \cup {GatewayCallback("k2", "101", "PAID")}
    \* a field dropped from a signed body, the signature kept
    \cup {Without(p, {f}) : p \in genuine, f \in SignedFieldSet}
    \* a body without one field, signed as it is by a holder of the key
    \cup {With(Without(p, {f}), "signatureHash",
               HmacSha512Hex(SecretKey, SignedStringOfPresent(Without(p, {f})))) :
            p \in genuine, f \in SignedFieldSet}
    \* a signed body with ProductCode dropped and its characters moved to Amount
    \cup {With(Without(p, {"ProductCode"}), "Amount", p["ProductCode"] \o p["Amount"]) :
            p \in genuine}

VerifyInputs ==
    {[kind |-> k, secret |-> s, payload |-> p] :
        k \in {"verify", "verify_official"}, s \in {SecretKey, "k2", ""},
        p \in VerifyPayloads}

InitVerify ==
    /\ invoices = <<>>
    /\ used_count = [c \in CouponCodes |-> 0]
    /\ usage = [cu \in CouponCodes \X Users |-> 0]
    /\ last = [op |-> "init"]
    /\ pending \in VerifyInputs
    /\ sessions = <<>>

VerifyCallback ==
    /\ pending.kind = "verify"
    /\ last' = [op |-> "verify_callback", secret |-> pending.secret,
                payload |-> pending.payload,
                result |-> verify_callback(pending.secret, pending.payload)]
    /\ pending' = NoInput
    /\ UNCHANGED <<invoices, used_count, usage, sessions>>

VerifyCallbackOfficial ==
    /\ pending.kind = "verify_official"
    /\ last' = [op |-> "verify_callback_official", secret |-> pending.secret,
                payload |-> pending.payload,
                result |-> verify_callback_official(pending.secret, pending.payload)]
    /\ pending' = NoInput
    /\ UNCHANGED <<invoices, used_count, usage, sessions>>

NextVerify ==
    \/ VerifyCallback
    \/ VerifyCallbackOfficial

SpecVerify == InitVerify /\ [][NextVerify]_vars

(***************************************************************************)
(* Concurrent requests on one PENDING invoice.  Each request runs in its   *)
(* own database session: it loads the row (SELECT), decides on the loaded  *)
(* copy, and its commit writes the attributes it changed on that copy      *)
(* (UPDATE ... WHERE id), with no lock and no version check.               *)
(***************************************************************************)
MaxSessions == 2

\* the UPDATE a session's commit issues: the attributes of new_row that
\* differ from the loaded copy, over the row as it is now
session_update(invs, id, loaded, new_row) ==
    [invs EXCEPT ![id] =
        [f \in DOMAIN @ |-> IF new_row[f] # loaded[f] THEN new_row[f] ELSE @[f]]]

\* the database as a session that loaded row id sees it
session_view(invs, id, loaded) == [invs EXCEPT ![id] = loaded]

\* the invoice the concurrent requests target: user 1's online booking
PendingInvoice ==
    create_invoice([user_id |-> 1, invoice_type |-> "online", activity |-> "trip",
                    trip_id |-> 1, course_id |-> 0, adults |-> 1, children |-> 0,
                    coupon_code |-> NoCoupon, amount |-> 45 * Unit, gw |-> "ok",
                    r1 |-> "10", r2 |-> "10"],
                   <<>>, [c \in CouponCodes |-> 0]).row

InitConc ==
    /\ invoices = <<PendingInvoice>>
    /\ used_count = [c \in CouponCodes |-> 0]
    /\ usage = [cu \in CouponCodes \X Users |-> 0]
    /\ last = [op |-> "init"]
    /\ pending = NoInput
    /\ sessions = <<>>

\* a request loads the row: db.query(Invoice)...first()
session_load(kind, id, input) ==
    /\ Len(sessions) < MaxSessions
    /\ sessions' = Append(sessions,
            [kind |-> kind, id |-> id, loaded |-> invoices[id], input |-> input,
             phase |-> "loaded", committed |-> FALSE, status_written |-> None,
             status_changed |-> FALSE])
    /\ UNCHANGED <<invoices, used_count, usage, last, pending>>

\* the rest of a request, from its loaded copy to its commit
session_finish(k, out, new_row) ==
    /\ invoices' = IF out.committed
                   THEN session_update(invoices, sessions[k].id,
                                       sessions[k].loaded, new_row)
                   ELSE invoices
    /\ sessions' = [sessions EXCEPT ![k] =
            [@ EXCEPT !.phase = "done", !.committed = out.committed,
                      !.status_written =
                            IF out.committed /\ new_row.status # sessions[k].loaded.status
                            THEN new_row.status ELSE None,
                      !.status_changed =
                            /\ out.committed
                            /\ new_row.status # sessions[k].loaded.status
                            /\ new_row.status # invoices[sessions[k].id].status]]
    /\ last' = [op |-> sessions[k].kind, result |-> out.result,
                committed |-> out.committed, id |-> sessions[k].id,
                pre_status |-> invoices[sessions[k].id].status]
    /\ UNCHANGED <<used_count, usage, pending>>

WebhookLoad ==
    \E payload \in {GatewayCallback(SecretKey, PendingInvoice.customer_reference, st) :
                        st \in {"PAID", "FAILED", "NEW"}} :
        session_load("webhook", FindByReference(invoices, payload["customerReference"]),
                     payload)

\* the row a finished request holds in its session
finish(k, out) == session_finish(k, out, out.invs[sessions[k].id])

WebhookCommit ==
    \E k \in 1..Len(sessions) :
        /\ sessions[k].kind = "webhook" /\ sessions[k].phase = "loaded"
        /\ finish(k,
                callback_for(session_view(invoices, sessions[k].id, sessions[k].loaded),
                             sessions[k].input, sessions[k].id,
                             callback_status(sessions[k].input)))

InquireLoad ==
    \E id \in 1..Len(invoices) : session_load("read", id, NoInput)

InquireCommit ==
    \E k \in 1..Len(sessions) :
        /\ sessions[k].kind = "read" /\ sessions[k].phase = "loaded"
        /\ \E resp \in InquiryResponses(sessions[k].loaded.customer_reference) :
            finish(k,
                _inquire_and_update_invoice(
                    session_view(invoices, sessions[k].id, sessions[k].loaded),
                    sessions[k].id, resp))

NextConc ==
    \/ WebhookLoad
    \/ WebhookCommit
    \/ InquireLoad
    \/ InquireCommit

SpecConc == InitConc /\ [][NextConc]_vars

(***************************************************************************)
(* Coupons over a sequence of requests: invoices created with coupons,     *)
(* coupon checks and price previews, one request at a time.                *)
(***************************************************************************)
\* the bookings of the coupon runs: activity and coupon code
CouponBookings ==
    {[activity |-> "Trip", trip_id |-> 1, course_id |-> 0, coupon_code |-> k] :
        k \in {NoCoupon, "SAVE10", "ALL50", "OLD", "FREE"}}
    \cup {[activity |-> "course", trip_id |-> 0, course_id |-> 1,
           coupon_code |-> "FREE"]}

\* how they are paid: cash with either drawn reference, or online with a
\* gateway that refuses
CouponPayments ==
    {[invoice_type |-> "cash", gw |-> "ok", r |-> "1"],
     [invoice_type |-> "cash", gw |-> "ok", r |-> "2"],
     [invoice_type |-> "online", gw |-> "fail", r |-> "10"]}

\* the submitted amount is the price previewed before any coupon was used,
\* or one beyond the tolerance
CouponRequests ==
    {Payable(WithAmount([user_id |-> u, invoice_type |-> p.invoice_type,
                 activity |-> b.activity, trip_id |-> b.trip_id,
                 course_id |-> b.course_id, adults |-> 1, children |-> 0,
                 coupon_code |-> b.coupon_code, amount |-> 0, gw |-> p.gw,
                 r1 |-> p.r, r2 |-> p.r], d)) :
        u \in Users, p \in CouponPayments, b \in CouponBookings,
        d \in {0, Unit + 100}}

InitCoupon ==
    /\ invoices = <<>>
    /\ used_count = [c \in CouponCodes |-> 0]
    /\ usage = [cu \in CouponCodes \X Users |-> 0]
    /\ last = [op |-> "init"]
    /\ pending = NoInput
    /\ sessions = <<>>

CreateInvoiceCoupon ==
    /\ \E req \in CouponRequests : DoCreate(req)
    /\ UNCHANGED <<pending, sessions>>

apply_coupon_request(coupon_code, user_id, out) ==
    /\ used_count' = out.used_count
    /\ usage' = out.usage
    /\ last' = [op |-> "apply_coupon", result |-> out.result,
                coupon_code |-> coupon_code, user_id |-> user_id]

\* POST /coupons/apply
ApplyCoupon ==
    /\ \E coupon_code \in CouponCodes \cup {"NOPE"}, user_id \in Users \cup {3} :
        apply_coupon_request(coupon_code, user_id,
            apply_coupon(coupon_code, user_id, used_count, usage))
    /\ UNCHANGED <<invoices, pending, sessions>>

\* a price preview: the calculator run outside create_invoice
PreviewPrice ==
    /\ \E b \in CouponBookings :
        last' = [op |-> "preview", activity |-> Lower(b.activity),
                 coupon_code |-> b.coupon_code,
                 calc |-> IF b.trip_id # 0
                          THEN calculate_trip_price(b.trip_id, 1, 0,
                                    b.coupon_code, used_count)
                          ELSE calculate_course_price(b.course_id,
                                    b.coupon_code, used_count)]
    /\ UNCHANGED <<invoices, used_count, usage, pending, sessions>>

NextCoupon ==
    \/ CreateInvoiceCoupon
    \/ ApplyCoupon
    \/ PreviewPrice

SpecCoupon == InitCoupon /\ [][NextCoupon]_vars

(***************************************************************************)
(* Coupon validation on drawn inputs: Init draws the used_count of one     *)
(* coupon, from nothing used to beyond its cap, and the code and scope of  *)
(* a price calculation; the action applies the calculator's lookup.        *)
(***************************************************************************)
MaxUsed == 4

ValidateInputs ==
    {[kind |-> "validate", coupon_code |-> k, activity_type |-> a] :
        k \in PriceCoupons, a \in {"trip", "course"}}

UsedCounts ==
    {[c \in CouponCodes |-> IF c = k THEN n ELSE 0] :
        k \in CouponCodes, n \in 0..MaxUsed}

InitValidate ==
    /\ invoices = <<>>
    /\ used_count \in UsedCounts
    /\ usage = [cu \in CouponCodes \X Users |-> 0]
    /\ last = [op |-> "init"]
    /\ pending \in ValidateInputs
    /\ sessions = <<>>

ValidateCoupon ==
    /\ pending.kind = "validate"
    /\ last' = [op |-> "_validate_coupon", coupon_code |-> pending.coupon_code,
                activity_type |-> pending.activity_type,
                result |-> coupon_lookup(pending.coupon_code,
                                pending.activity_type, used_count)]
    /\ pending' = NoInput
    /\ UNCHANGED <<invoices, used_count, usage, sessions>>

NextValidate == ValidateCoupon

SpecValidate == InitValidate /\ [][NextValidate]_vars

(***************************************************************************)
(* Concurrent create_invoice requests with coupons.  Each request has its  *)
(* own session.  It validates the coupon and commits its invoice; then     *)
(* consume_coupon reads the coupon row and the usage row, and its commit   *)
(* writes the values computed from what it read: usage_count =             *)
(* existing_usage_count + 1 (or a new row with 1) and used_count = the     *)
(* loaded used_count + 1.  The insert of the invoice does not read the     *)
(* coupon, so it is taken together with the validation.                    *)
(***************************************************************************)
ConcCouponRequests ==
    {Payable(WithAmount([user_id |-> u, invoice_type |-> "cash",
                 activity |-> b.activity, trip_id |-> b.trip_id,
                 course_id |-> b.course_id, adults |-> 1, children |-> 0,
                 coupon_code |-> b.coupon_code, amount |-> 0, gw |-> "ok",
                 r1 |-> r, r2 |-> r], 0)) :
        u \in Users, r \in RandCash,
        b \in {x \in CouponBookings : x.coupon_code \in {"ALL50", "FREE"}}}

InitCouponConc ==
    /\ invoices = <<>>
    /\ used_count = [c \in CouponCodes |-> 0]
    /\ usage = [cu \in CouponCodes \X Users |-> 0]
    /\ last = [op |-> "init"]
    /\ pending = NoInput
    /\ sessions = <<>>

\* steps 1 to 5 of create_invoice in a new session: the request ends here
\* unless a coupon is to be consumed
create_begin(req, out) ==
    /\ invoices' = IF out.inserted THEN Append(invoices, out.row) ELSE invoices
    /\ sessions' = Append(sessions,
            [kind |-> "create", req |-> req, result |-> out.result,
             inserted |-> out.inserted,
             phase |-> IF create_invoice_consumes(req, out) THEN "inserted"
                       ELSE "done",
             loaded_used_count |-> 0, existing_usage_count |-> 0,
             consumed |-> FALSE])
    /\ UNCHANGED <<used_count, usage, last, pending>>

CreateBegin ==
    /\ Len(sessions) < MaxSessions
    /\ \E req \in ConcCouponRequests :
        create_begin(req, create_invoice(req, invoices, used_count))

\* consume_coupon reads: get_coupon_by_code and the select of usage_count
ConsumeLoad ==
    \E k \in 1..Len(sessions) :
        /\ sessions[k].kind = "create" /\ sessions[k].phase = "inserted"
        /\ sessions' = [sessions EXCEPT ![k] =
                [@ EXCEPT !.phase = "loaded",
                          !.loaded_used_count =
                                used_count[sessions[k].req.coupon_code],
                          !.existing_usage_count =
                                usage[<<sessions[k].req.coupon_code,
                                        sessions[k].req.user_id>>]]]
        /\ UNCHANGED <<invoices, used_count, usage, last, pending>>

\* the insert of a usage row that another session has inserted since the
\* read violates the primary key (coupon_id, user_id)
usage_insert_fails(us, code, user_id, existing_usage_count) ==
    existing_usage_count = 0 /\ us[<<code, user_id>>] # 0

\* consume_coupon writes and commits, from the values it read; an
\* IntegrityError is rolled back and raised as a bad request (a conflict on
\* MySQL)
consume_commit(k, code, user_id, fails) ==
    /\ usage' = IF fails THEN usage
                ELSE [usage EXCEPT ![<<code, user_id>>] =
                        consume_usage([usage EXCEPT ![<<code, user_id>>] =
                                            sessions[k].existing_usage_count],
                                      code, user_id)[<<code, user_id>>]]
    /\ used_count' = IF fails THEN used_count
                     ELSE [used_count EXCEPT ![code] =
                            consume_used_count([used_count EXCEPT ![code] =
                                                    sessions[k].loaded_used_count],
                                               code)[code]]
    /\ sessions' = [sessions EXCEPT ![k] =
            [@ EXCEPT !.phase = "done", !.consumed = ~fails,
                      !.result = IF fails THEN "400:usage_integrity" ELSE @]]
    /\ UNCHANGED <<invoices, last, pending>>

ConsumeCommit ==
    \E k \in 1..Len(sessions) :
        /\ sessions[k].kind = "create" /\ sessions[k].phase = "loaded"
        /\ consume_commit(k, sessions[k].req.coupon_code, sessions[k].req.user_id,
                usage_insert_fails(usage, sessions[k].req.coupon_code,
                    sessions[k].req.user_id, sessions[k].existing_usage_count))

NextCouponConc ==
    \/ CreateBegin
    \/ ConsumeLoad
    \/ ConsumeCommit

SpecCouponConc == InitCouponConc /\ [][NextCouponConc]_vars

(***************************************************************************)
(* Convergence to the gateway's status.  One PENDING online invoice; the   *)
(* gateway holds a terminal status for its reference (drawn by Init, in    *)
(* either case of letters).  Reads of the invoice inquire: the inquiry     *)
(* fails, raises, or answers the gateway's status.  The gateway's webhook  *)
(* carries the same status.  Fairness: reads whose inquiry succeeds, or    *)
(* the webhook, keep coming.                                               *)
(***************************************************************************)
ReadOps ==
    {"get_invoice", "get_invoice_admin", "get_last_invoice_for_user",
     "get_invoice_by_reference_for_user", "get_invoice_by_reference_public"}

GatewayStatuses == {"PAID", "paid", "FAILED", "CANCELLED", "EXPIRED"}

InitLive ==
    /\ invoices = <<PendingInvoice>>
    /\ used_count = [c \in CouponCodes |-> 0]
    /\ usage = [cu \in CouponCodes \X Users |-> 0]
    /\ last = [op |-> "init"]
    /\ pending \in {[kind |-> "gateway", status |-> st] : st \in GatewayStatuses}
    /\ sessions = <<>>

\* the answers of the inquiry while the gateway holds status st
GatewayInquiry(customer_reference, st) ==
    {[error |-> TRUE, status |-> None, ref |-> None, raised |-> FALSE],
     [error |-> FALSE, status |-> None, ref |-> None, raised |-> TRUE]}
        \cup {[error |-> FALSE, status |-> st, ref |-> r, raised |-> FALSE] :
                r \in {None, "ek" \o customer_reference}}

\* the reads of the invoice by its owner and by an admin
live_read(op, resp) ==
    /\ read_request(op, 1, _inquire_and_update_invoice(invoices, 1, resp))
    /\ UNCHANGED <<used_count, usage, pending, sessions>>

ReconcileFails ==
    \E op \in ReadOps,
       resp \in GatewayInquiry(invoices[1].customer_reference, pending.status) :
        /\ resp.error \/ resp.raised
        /\ live_read(op, resp)

ReconcileSucceeds ==
    \E op \in ReadOps,
       resp \in GatewayInquiry(invoices[1].customer_reference, pending.status) :
        /\ ~resp.error /\ ~resp.raised
        /\ live_read(op, resp)

live_webhook(payload) ==
    /\ callback_request(payload, easykash_callback(invoices, payload),
            FindByReference(invoices, Get(payload, "customerReference", None)))
    /\ UNCHANGED <<used_count, usage, pending, sessions>>

WebhookDelivered ==
    live_webhook(GatewayCallback(SecretKey, invoices[1].customer_reference,
                                 pending.status))

\* the gateway's status reaches the engine by either way
Deliver == ReconcileSucceeds \/ WebhookDelivered

NextLive ==
    \/ ReconcileFails
    \/ ReconcileSucceeds
    \/ WebhookDelivered

SpecLive == InitLive /\ [][NextLive]_vars /\ WF_vars(Deliver)

(***************************************************************************)
(* Properties.                                                             *)
(***************************************************************************)
TerminalStatuses == {"PAID", "FAILED", "CANCELLED", "EXPIRED"}

\* C1: terminal statuses are absorbing on the webhook path: a webhook for an
\* invoice whose stored status is PAID, FAILED, CANCELLED or EXPIRED leaves
\* the stored status as it was.
C1_TerminalAbsorbing ==
    (last.op = "webhook" /\ last.id # 0 /\ last.pre_status \in TerminalStatuses)
        => invoices[last.id].status = last.pre_status

\* C2: of the concurrent requests that loaded the same invoice as PENDING,
\* at most one commits a change of its stored status.
C2_AtMostOneStatusChange ==
    Cardinality({k \in 1..Len(sessions) :
                    /\ sessions[k].loaded.status = "PENDING"
                    /\ sessions[k].status_changed}) <= 1

\* C3: a verified webhook whose customerReference names a PAID invoice is a
\* no-op success: it returns success, changes no invoice, commits nothing
\* and notifies nobody.
C3_PaidReplayNoop ==
    [][(last'.op = "webhook" /\ last'.verified /\ last'.pre_status = "PAID")
            => /\ invoices' = invoices
               /\ last'.result = "success:already_paid"
               /\ ~last'.committed
               /\ ~last'.notified]_vars

C3_Witness ==
    /\ last.op = "webhook" /\ last.verified /\ last.pre_status = "PAID"
    /\ last.result = "success:already_paid"
    /\ invoices[last.id].status = "PAID"

\* C4: a webhook whose signature does not verify is rejected as forbidden
\* and changes no invoice.
C4_UnverifiedNoMutation ==
    [][(last'.op = "webhook" /\ ~last'.verified)
            => invoices' = invoices /\ last'.result = "403:forbidden"]_vars

C4_Witness ==
    /\ last.op = "webhook" /\ ~last.verified
    /\ last.id # 0 /\ last.pre_status = "PENDING"
    /\ invoices[last.id].status = "PENDING"

\* C5: no reading handler calls inquire_payment for an invoice whose stored
\* status is PAID, FAILED, CANCELLED or EXPIRED, nor for an invoice without
\* a customer reference.
C5_NoInquiryWhenFinal ==
    (/\ last.op \in ReadOps
     /\ last.id # 0
     /\ \/ last.pre_status \in TerminalStatuses
        \/ invoices[last.id].customer_reference \in {None, ""})
        => ~last.inquired

\* C6: create_invoice rejects the submitted amount as a bad request exactly
\* when it is more than 1.0 away from the calculator's final price.
C6_ToleranceIff ==
    (last.op = "create_invoice" /\ last.calc.err = "")
        => (last.result # "400:amount_mismatch"
                <=> /\ last.submitted - last.calc.final_price <= Unit
                    /\ last.calc.final_price - last.submitted <= Unit)

C6_Witness ==
    /\ last.op = "create_invoice" /\ last.result = "created"
    /\ last.submitted - last.calc.final_price = Unit

\* C7: a persisted invoice's amount is its breakdown's final_price and its
\* discount_amount is its breakdown's base_price minus final_price.
C7_RowMatchesBreakdown ==
    (last.op = "create_invoice" /\ last.result = "created")
        => /\ invoices[last.id].amount = invoices[last.id].breakdown_final_price
           /\ invoices[last.id].discount_amount =
                invoices[last.id].breakdown_base_price
                    - invoices[last.id].breakdown_final_price

BothDiscounts ==
    /\ last.op \in {"calculate_trip_price", "calculate_course_price"}
    /\ last.calc.err = ""
    /\ last.calc.group_applied /\ last.calc.promo_applied

\* base*(100-g)*(100-c)/10000; base is a whole number of currency units, so
\* both divisions are exact
Sequential(base, g, c) == (((base \div 100) * (100 - g)) * (100 - c)) \div 100

\* C9 as stated: when a group discount g and a coupon c both apply, the promo
\* discount is c percent of (base_price - group_discount) and final_price is
\* base_price*(100-g)*(100-c)/10000, for trips and for courses.
C9_SequentialAsStated ==
    BothDiscounts
        => /\ last.calc.promo_amount * 100 =
                last.calc.promo_percentage
                    * (last.calc.base_price - last.calc.group_amount)
           /\ last.calc.final_price =
                Sequential(last.calc.base_price, last.calc.group_percentage,
                           last.calc.promo_percentage)

\* C9 amended: when a group discount g and a coupon c both apply, the promo
\* discount is c percent of (base_price - group_discount) and final_price is
\* base_price*(100-g)*(100-c)/10000, or 0 when that is negative.
C9_SequentialFloored ==
    BothDiscounts
        => /\ last.calc.promo_amount * 100 =
                last.calc.promo_percentage
                    * (last.calc.base_price - last.calc.group_amount)
           /\ last.calc.final_price =
                IF Sequential(last.calc.base_price, last.calc.group_percentage,
                              last.calc.promo_percentage) < 0
                THEN 0
                ELSE Sequential(last.calc.base_price, last.calc.group_percentage,
                                last.calc.promo_percentage)

C9_Witness ==
    /\ BothDiscounts
    /\ last.calc.group_percentage = 10 /\ last.calc.promo_percentage = 10
    /\ last.calc.final_price * 100 = last.calc.base_price * 81

\* C10: the verifiers return false for every payload from which one of the
\* seven signed fields is absent, whatever signatureHash it carries.
C10_MissingFieldFailsClosed ==
    (/\ last.op \in {"verify_callback", "verify_callback_official"}
     /\ \E f \in SignedFieldSet : f \notin DOMAIN last.payload)
        => last.result = FALSE

\* C11: for a payload that carries the seven signed fields, verify_callback
\* returns true exactly when a secret is configured and the payload's
\* signatureHash is the HMAC-SHA512 hex digest, under that secret, of the
\* seven values concatenated in the order ProductCode, Amount, ProductType,
\* PaymentMethod, status, easykashRef, customerReference.
C11_SignatureExact ==
    (last.op = "verify_callback" /\ SignedFieldSet \subseteq DOMAIN last.payload)
        => (last.result
                <=> /\ last.secret # ""
                    /\ "signatureHash" \in DOMAIN last.payload
                    /\ last.payload["signatureHash"] =
                            HmacSha512Hex(last.secret, SignedString(last.payload)))

C11_Witness ==
    /\ last.op = "verify_callback" /\ last.result
    /\ SignedFieldSet \subseteq DOMAIN last.payload
    /\ last.payload["ProductCode"] # last.payload["Amount"]

\* C12: an online create_invoice whose gateway call answers success = false
\* ends in the bad request of the payment link and inserts no row, and every
\* online row that create_invoice inserts carries the customer reference of a
\* gateway call that answered success.
C12_GatewayFailureNoRow ==
    [][(pending.kind = "create" /\ last'.op = "create_invoice"
            /\ pending.req.invoice_type = "online")
        => /\ (last'.gateway_called
                    /\ ~create_payment(pending.req.user_id, pending.req.r1,
                                       pending.req.r2, pending.req.gw).success)
                => (last'.result = "400:payment_link" /\ invoices' = invoices)
           /\ invoices' # invoices
                => /\ create_payment(pending.req.user_id, pending.req.r1,
                                     pending.req.r2, pending.req.gw).success
                   /\ invoices'[Len(invoices')].customer_reference =
                        create_payment(pending.req.user_id, pending.req.r1,
                            pending.req.r2, pending.req.gw).customer_reference]_vars

C12_Witness ==
    /\ last.op = "create_invoice" /\ last.result = "400:payment_link"
    /\ last.gateway_called /\ invoices = <<>>

\* C13: a create_invoice that fails (a validation error, an amount mismatch,
\* a gateway failure, a failed commit of the invoice) changes neither a
\* coupon's used_count nor any user's usage count.
C13_FailedCreateKeepsCoupon ==
    [][(last'.op = "create_invoice" /\ last'.result # "created")
        => (used_count' = used_count /\ usage' = usage)]_vars

C13_Witness ==
    /\ last.op = "create_invoice" /\ last.result = "500:integrity"
    /\ last.calc.coupon_obj = "ALL50"
    /\ used_count["ALL50"] = 1

\* the rejections of create_invoice that precede the gateway and the insert
ValidationErrors ==
    {"400:invoice_type", "400:activity", "400:trip_id", "400:course_id",
     "400:adults", "400:children", "400:max_person", "404:trip", "404:course",
     "400:price_unavailable", "404:coupon", "400:coupon_inactive",
     "400:coupon_used_up", "400:coupon_expired", "400:coupon_scope",
     "400:amount_mismatch"}

\* C14: a create_invoice rejected by validation (invoice_type, activity,
\* missing trip_id or course_id, participants, child policy, unknown or
\* invalid coupon, amount mismatch) has inserted no row, has changed no coupon
\* counter and has not called the gateway.
C14_ValidationBeforeEffects ==
    [][(last'.op = "create_invoice" /\ last'.result \in ValidationErrors)
        => /\ invoices' = invoices
           /\ used_count' = used_count /\ usage' = usage
           /\ ~last'.gateway_called /\ ~last'.notified]_vars

C14_Witness ==
    /\ last.op = "create_invoice" /\ last.result = "400:amount_mismatch"
    /\ last.calc.promo_applied /\ ~last.gateway_called
    /\ invoices = <<>>

\* C15: for every coupon with user_limit > 0 and every user, the number of
\* times the user has consumed the coupon never exceeds user_limit.
C15_UserLimitEnforced ==
    \A code \in CouponCodes, user_id \in Users :
        Coupons[code].user_limit > 0
            => usage[<<code, user_id>>] <= Coupons[code].user_limit

C19_ValidationReadOnly ==
    [][/\ last'.op \in {"apply_coupon", "preview"}
            => (used_count' = used_count /\ usage' = usage)
       /\ (used_count' # used_count \/ usage' # usage)
            => (last'.op = "create_invoice" /\ last'.consumed)]_vars

C19_Witness ==
    /\ last.op = "apply_coupon" /\ last.result = "success"
    /\ last.coupon_code = "ALL50" /\ last.user_id = 1
    /\ used_count["ALL50"] = 1 /\ usage[<<"ALL50", 1>>] = 1

\* C16: in every reachable state, concurrent create_invoice calls included,
\* used_count <= can_used_up_to for every coupon.
C16_CapNeverExceeded ==
    \A code \in CouponCodes : used_count[code] <= Coupons[code].can_used_up_to

\* C17: once the concurrent create_invoice calls have all completed,
\* used_count of every coupon equals the number of invoices committed with it
\* and every user's usage count equals the number of that user's invoices
\* committed with it.
C17_NoLostIncrement ==
    (\A k \in 1..Len(sessions) : sessions[k].phase = "done")
        => \A code \in CouponCodes :
            /\ used_count[code] =
                Cardinality({i \in 1..Len(invoices) :
                                invoices[i].coupon_code = code})
            /\ \A user_id \in Users :
                usage[<<code, user_id>>] =
                    Cardinality({i \in 1..Len(invoices) :
                                    /\ invoices[i].coupon_code = code
                                    /\ invoices[i].user_id = user_id})

\* C20: a reconciliation read whose inquiry fails (an answer that is not a
\* success, or an error raised by the request) changes no field of the
\* invoice and returns the stored invoice to the caller: nothing is raised.
C20_FailedInquirySwallowed ==
    (last.op \in ReadOps /\ last.inquiry_failed)
        => (last.result = "ok" /\ ~last.committed)

\* C21: whatever the notification of the operators does (sent, refused,
\* raised in the send, no operator configured), a create_invoice that
\* committed its row returns the created invoice, and the row and the
\* consumption of its coupon are in place.
C21_NotificationNeverAborts ==
    [][(last'.op = "create_invoice" /\ last'.notified)
        => /\ last'.result = "created"
           /\ Len(invoices') = Len(invoices) + 1
           /\ last'.calc.coupon_obj # NoCoupon
                => /\ last'.consumed
                   /\ used_count'[last'.calc.coupon_obj] =
                        used_count[last'.calc.coupon_obj] + 1]_vars

C21_Witness ==
    /\ last.op = "create_invoice" /\ last.send = "raised"
    /\ last.result = "created" /\ last.consumed
    /\ Len(invoices) = 1 /\ used_count["ALL50"] = 1

\* C22: a reconciliation read changes the stored status only to PAID, FAILED,
\* CANCELLED or EXPIRED: an inquiry that returns any other status leaves the
\* stored status as it was.
C22_InquiryTerminalOnly ==
    (last.op \in ReadOps /\ last.id # 0
            /\ invoices[last.id].status # last.pre_status)
        => invoices[last.id].status \in TerminalStatuses

\* C23: a verified webhook whose status, upper-cased, is not PAID, FAILED,
\* CANCELLED or EXPIRED (a body without status included) changes no field of
\* any invoice and commits nothing.
C23_UnknownStatusNoop ==
    [][(last'.op = "webhook" /\ last'.verified /\ last'.id # 0
            /\ (last'.status = None
                    \/ Upper(last'.status) \notin VALID_CALLBACK_STATUSES))
        => (invoices' = invoices /\ ~last'.committed)]_vars

C23_Witness ==
    /\ last.op = "webhook" /\ last.verified /\ last.id # 0
    /\ last.status = "NEW" /\ last.pre_status = "FAILED"
    /\ last.result = "noop:unhandled_status"
    /\ invoices[last.id].status = "FAILED"

\* C24: process_payment_callback returns a success-shaped, non-empty result
\* for every verified payload whose customerReference matches an invoice
\* (updated, already paid, unhandled status), and raises not-found, changing
\* nothing, exactly when no invoice matches.
C24_CallbackResultShaped ==
    (last.op = "webhook" /\ last.verified)
        => IF last.id = 0
           THEN last.result = "404:not_found" /\ ~last.committed
           ELSE last.result \in {"success:updated", "success:already_paid",
                                 "noop:unhandled_status"}

\* C25: the summary counts every invoice in scope exactly once:
\* total_invoices of the admin summary (all invoices) and of a user's summary
\* (that user's invoices) is the number of stored invoices in scope, and is
\* paid count + pending count + failed count.
C25_SummaryCountsAll ==
    last.op \in {"get_invoices_summary_for_admin", "get_summary_for_user"}
        => /\ last.summary.total_invoices =
                Cardinality({i \in 1..Len(invoices) :
                                invoices[i].user_id \in last.scope})
           /\ last.summary.total_invoices =
                last.summary.paid_count + last.summary.pending_count
                    + last.summary.failed_count

\* C26: in every reachable state no two stored invoices, online or cash, of
\* the same user or of different users, carry the same customer_reference.
C26_CustomerReferenceUnique ==
    \A i, j \in 1..Len(invoices) :
        i # j => invoices[i].customer_reference # invoices[j].customer_reference

C26_Witness ==
    /\ last.op = "create_invoice" /\ last.result = "500:integrity"
    /\ Len(invoices) = 1
    /\ invoices[1].customer_reference # None

\* C27: a manual status update changes the stored status only when the
\* invoice is PENDING and the requested value is PAID, FAILED, CANCELLED or
\* EXPIRED; on a terminal invoice, or with any other value, the stored status
\* stays as it was.
C27_ManualTransitionTable ==
    (last.op = "update_payment_status_public" /\ last.id # 0
            /\ invoices[last.id].status # last.pre_status)
        => (last.pre_status = "PENDING"
                /\ invoices[last.id].status \in TerminalStatuses)

\* C28: the signature binds each signed field: a payload that verifies with
\* the signatureHash of a callback the gateway signed has the same value as
\* that callback in each of the seven signed fields, customerReference
\* included.
C28_SignatureBindsFields ==
    (last.op = "verify_callback" /\ last.result
            /\ SignedFieldSet \subseteq DOMAIN last.payload)
        => \A g \in GenuineCallbacks :
                g["signatureHash"] = last.payload["signatureHash"]
                    => \A f \in SignedFieldSet : last.payload[f] = g[f]

\* the sum over all users of a coupon's usage counts
TotalUsage(code) ==
    Cardinality({p \in Users \X (1..MaxInvoices) : p[2] <= usage[<<code, p[1]>>]})

\* C29: with create_invoice and consume_coupon run one at a time, a coupon's
\* used_count equals the sum over all users of its usage counts.
C29_UsedCountIsSumOfUsage ==
    \A code \in CouponCodes :
        /\ used_count[code] = TotalUsage(code)
        /\ \A user_id \in Users : usage[<<code, user_id>>] <= MaxInvoices

C29_Witness ==
    /\ last.op = "create_invoice" /\ last.consumed
    /\ usage[<<"ALL50", 1>>] = 2 /\ usage[<<"ALL50", 2>>] = 0
    /\ used_count["ALL50"] = 2

====
